---- MODULE Spec2Model ----
(***************************************************************************)
(* Model of the presentation generator of astro-orga                       *)
(* (scripts/generate-presentation.ts, shipped here inside src/src/cli.ts). *)
(* One behaviour is one process: a call of generatePresentation on a file  *)
(* system found in some state, or (SpecPDF) one call of generatePDF on a   *)
(* list of raster paths.                                                   *)
(***************************************************************************)
EXTENDS Integers, Sequences, FiniteSets, TLC

VARIABLES
    pc,             \* position of the single thread of control
    caller,         \* "generatePresentation" or "generatePDF" (entry point of the process)
    fontPath,       \* argument fontPath of generatePresentation
    fontSourcePath, \* const fontSourcePath
    fonts,          \* const fonts (payloads returned by loadFonts)
    wi,             \* which of the three weights loadFonts is at
    logosLoaded,    \* logo data URLs loaded so far
    si,             \* index of the slide the for loop is at
    cur,            \* svg / png of the slide in flight
    pngPaths,       \* const pngPaths
    pdfDoc,         \* pdfDoc of generatePDF: the pages added so far
    pj,             \* index in pngPaths of generatePDF's for loop
    files,          \* cleanupSlides: entries of the listing not yet visited
    result,         \* what generatePresentation returned
    pdfResult,      \* how generatePDF ended
    log,            \* history: the operations performed, in order
    unlinked,       \* history: the files cleanupSlides deleted
    readable,       \* file system: readable font sources and logo assets
    cache,          \* file system: .cache, weight -> derivative payload
    dirs,           \* file system: directories that exist
    slideFiles,     \* file system: output/slides, file name -> content
    outDoc,         \* file system: output/presentation.pdf
    fs0,            \* history: the file system the process found
    verbose,        \* argument verbose of generatePresentation
    args,           \* main: process.argv.slice(2)
    mainpc,         \* main: where it is ("none" when main is not the entry point)
    exitCode,       \* the exit code of the process, -1 while it runs
    activities,     \* sortActivitiesByTime: its argument
    sorted,         \* sortActivitiesByTime: what it returned
    built,          \* the slide builders: the calls made and the layout trees returned
    current,        \* Spinner: index of the frame shown
    interval,       \* Spinner: this.interval, 0 for null
    text,           \* Spinner: this.text
    timers,         \* the runtime: the interval timers that are active
    written,        \* history: what the spinner wrote last to the terminal
    calls,          \* history: how many methods of the spinner were called
    lastCall        \* history: the method of the spinner called last

vars == <<pc, caller, fontPath, fontSourcePath, fonts, wi, logosLoaded, si, cur,
          pngPaths, pdfDoc, pj, files, result, pdfResult, log, unlinked,
          readable, cache, dirs, slideFiles, outDoc, fs0,
          verbose, args, mainpc, exitCode, activities, sorted,
          built, current, interval, text, timers, written, calls, lastCall>>

\* the state of a Spinner and of its timers
spinnerVars == <<current, interval, text, timers, written, calls, lastCall>>

\* what generatePresentation, generatePDF and cleanupSlides never assign
aux == <<verbose, args, mainpc, exitCode, activities, sorted, built, spinnerVars>>

\* ------------------------------------------------------------ bounds
\* longest list of raster paths handed to generatePDF on its own
MaxPaths == 3

\* ------------------------------------------------------------ constants
WIDTH == 3840
HEIGHT == 2160
pageWidth == 1920
pageHeight == 1080

ASSETS_DIR == "assets"
LOGO_PATH == "assets/AIE.png"
LOCKEDUP_LOGO_PATH == "assets/lockedup.logo.png"
CACHE_DIR == ".cache"
OUTPUT_DIR == "output"
SLIDES_DIR == "output/slides"
DEFAULT_FONT == "../astro-design/src/fonts/Cupertino-Pro-Full.woff2"
CUSTOM_FONT == "custom.woff2"
UNDEFINED == "undefined"

\* FONT_WEIGHTS, in the order loadFonts visits them
FONT_WEIGHTS == <<400, 500, 700>>
Weights == {FONT_WEIGHTS[k] : k \in 1..Len(FONT_WEIGHTS)}

\* the names of the slides array, in order
slides == <<"01-title", "02-discord", "03-nuitdelinfo", "04-programme",
            "05-escape-game", "06-asso", "07-sujet">>

\* a file name of the slide directory is <<stem, extension>>
PngName(name) == <<name, "png">>
EndsWithSlideName(file) == \E k \in 1..Len(slides) : file = PngName(slides[k])

\* file.endsWith('.png')
EndsWithPng(file) == file[2] = "png"

\* the static instance fontTools saves for a source at a weight
Derived(src, weight) == [src |-> src, wght |-> weight]

\* satori: the svg of a slide rendered with a font set
Svg(name, fontSet) == [kind |-> "svg", slide |-> name, fonts |-> fontSet, w |-> WIDTH, h |-> HEIGHT]
\* Resvg, fitTo width WIDTH: the png of an svg
Png(svg) == [kind |-> "png", slide |-> svg.slide, fonts |-> svg.fonts, w |-> WIDTH, h |-> (svg.h * WIDTH) \div svg.w]
\* what a write cut short leaves behind
Truncated == [kind |-> "truncated", slide |-> "", fonts |-> <<>>, w |-> 0, h |-> 0]
\* a file that is no raster
TextFile == [kind |-> "text", slide |-> "", fonts |-> <<>>, w |-> 0, h |-> 0]

\* nothing rendered yet
NoImage == [kind |-> "none", slide |-> "", fonts |-> <<>>, w |-> 0, h |-> 0]

\* fault variant of Page: the page takes the raster's pixel size
PageOfImageSize(pngImage) == [size |-> <<pngImage.w, pngImage.h>>, image |-> pngImage, x |-> 0, y |-> 0, width |-> pngImage.w, height |-> pngImage.h]

\* one page of the document: page size, the image drawn and the rectangle it is drawn in
Page(pngImage) == [size |-> <<pageWidth, pageHeight>>, image |-> pngImage, x |-> 0, y |-> 0, width |-> pageWidth, height |-> pageHeight]

\* a document found at the output path before the run
OldDoc == [state |-> "complete", pages |-> <<Page([kind |-> "png", slide |-> "old", fonts |-> <<>>, w |-> WIDTH, h |-> HEIGHT])>>]
NoDoc == [state |-> "absent", pages |-> <<>>]
\* what a write of the document cut short leaves at the output path
TruncatedDoc == [state |-> "truncated", pages |-> <<>>]

\* files left in output/slides by earlier runs or by the user
Leftovers == [f \in {PngName("old"), <<"notes", "txt">>} |-> IF EndsWithPng(f) THEN Png(Svg("old", <<>>)) ELSE TextFile]
NoFiles == [f \in {} |-> NoImage]

WithFileReplacingAll(dir, name, content) == [f \in {name} |-> content]

\* a file system with one more file
WithFile(dir, name, content) == [f \in DOMAIN dir \cup {name} |-> IF f = name THEN content ELSE dir[f]]
\* a file system with one file less
WithoutFile(dir, name) == [f \in DOMAIN dir \ {name} |-> dir[f]]

\* ------------------------------------------------------------ history
Ev(op, arg) == <<op, arg>>

\* if (verbose) cli.info(msg)
Info(l, msg) == IF verbose THEN Append(l, Ev("cli.info", msg)) ELSE l

CaughtNoStop(l) == l \o <<Ev("cli.error", "Failed to generate presentation"), Ev("return", FALSE)>>

\* the catch block of generatePresentation
Caught(l) == l \o <<Ev("spinner.stop", FALSE), Ev("cli.error", "Failed to generate presentation"), Ev("return", FALSE)>>

InPDF == pc \in {"pdfCreate", "pdfEmbed", "pdfSave"}

\* an exception leaves the step: caught at the boundary of generatePresentation,
\* or raised out of generatePDF when that is the entry point
Throw(l) ==
    /\ pc' = "done"
    /\ log' = IF caller = "generatePresentation" THEN Caught(l) ELSE l
    /\ result' = IF caller = "generatePresentation" THEN "false" ELSE result
    /\ pdfResult' = IF InPDF THEN "threw" ELSE pdfResult

\* the step ends normally
Goto(next, l) ==
    /\ pc' = next
    /\ log' = l
    /\ result' = result
    /\ pdfResult' = pdfResult

\* ------------------------------------------------------------ initial states
FileSystems ==
    /\ readable \in SUBSET {DEFAULT_FONT, CUSTOM_FONT, LOGO_PATH, LOCKEDUP_LOGO_PATH}
    /\ \E S \in SUBSET Weights : cache = [w \in S |-> Derived(DEFAULT_FONT, w)]
    /\ dirs \in SUBSET {OUTPUT_DIR, SLIDES_DIR, CACHE_DIR}
    /\ SLIDES_DIR \in dirs => OUTPUT_DIR \in dirs
    /\ DOMAIN cache # {} => CACHE_DIR \in dirs
    /\ slideFiles \in IF SLIDES_DIR \in dirs THEN {NoFiles, Leftovers} ELSE {NoFiles}
    /\ outDoc \in IF OUTPUT_DIR \in dirs THEN {NoDoc, OldDoc} ELSE {NoDoc}
    /\ fs0 = [cache |-> cache, slideFiles |-> slideFiles, outDoc |-> outDoc]

\* new cli.Spinner(text): private current = 0; private interval = null
NewSpinner ==
    /\ current = 0
    /\ interval = 0
    /\ text = "Generating presentation"
    /\ timers = {}
    /\ written = "nothing"
    /\ calls = 0
    /\ lastCall = "constructor"

\* no slide builder called, the spinner as constructed
NotBuilt ==
    /\ built = <<>>
    /\ NewSpinner

\* main, sortActivitiesByTime not entered
NotEntered ==
    /\ args = <<>>
    /\ mainpc = "none"
    /\ exitCode = -1
    /\ activities = <<>>
    /\ sorted = <<>>
    /\ NotBuilt

Locals ==
    /\ fontSourcePath = UNDEFINED
    /\ fonts = <<>>
    /\ wi = 1
    /\ logosLoaded = <<>>
    /\ si = 1
    /\ cur = NoImage
    /\ pdfDoc = <<>>
    /\ pj = 1
    /\ files = {}
    /\ result = "none"
    /\ pdfResult = "none"
    /\ log = <<>>
    /\ unlinked = {}

\* without --font there is no file at the custom path
Init ==
    /\ pc = "idle"
    /\ caller = "generatePresentation"
    /\ fontPath \in {UNDEFINED, CUSTOM_FONT}
    /\ verbose = FALSE
    /\ NotEntered
    /\ pngPaths = <<>>
    /\ Locals
    /\ FileSystems
    /\ fontPath = UNDEFINED => CUSTOM_FONT \notin readable

\* ------------------------------------------------------------ generatePresentation
\* const spinner = new cli.Spinner(...); spinner.start()
Start ==
    /\ pc = "idle"
    /\ Goto("mkdirSlides", Append(log, Ev("spinner.start", "")))
    /\ UNCHANGED <<aux, fs0, caller, fontPath, fontSourcePath, fonts, wi, logosLoaded, si, cur, pngPaths,
                   pdfDoc, pj, files, unlinked, readable, cache, dirs, slideFiles, outDoc>>

\* await mkdir(SLIDES_DIR, { recursive: true })
MkdirSlides ==
    /\ pc = "mkdirSlides"
    /\ \E ok \in BOOLEAN :
        LET l == Append(log, Ev("mkdir", SLIDES_DIR)) IN
        IF ok
        THEN /\ dirs' = dirs \cup {OUTPUT_DIR, SLIDES_DIR}
             /\ Goto("fontCheck", l)
        ELSE /\ dirs' = dirs
             /\ Throw(l)
    /\ UNCHANGED <<aux, fs0, caller, fontPath, fontSourcePath, fonts, wi, logosLoaded, si, cur, pngPaths,
                   pdfDoc, pj, files, unlinked, readable, cache, slideFiles, outDoc>>

\* fontPath || resolve(ROOT_DIR, '../astro-design/...')
ResolveFont(path) == IF path = UNDEFINED \/ path = "" THEN DEFAULT_FONT ELSE path

\* fault variant of FontCheck: the inner catch reports the missing font but does not return
FontCheckNoReturn ==
    /\ pc = "fontCheck"
    /\ fontSourcePath' = ResolveFont(fontPath)
    /\ LET l == Append(log, Ev("fontCheck", fontSourcePath')) IN
        IF fontSourcePath' \in readable
        THEN Goto("loadFonts", l)
        ELSE Goto("loadFonts", l \o <<Ev("spinner.stop", FALSE), Ev("cli.error", "Font not found"), Ev("cli.info", "Please provide font path")>>)
    /\ UNCHANGED <<aux, fs0, caller, fontPath, fonts, wi, logosLoaded, si, cur, pngPaths,
                   pdfDoc, pj, files, unlinked, readable, cache, dirs, slideFiles, outDoc>>

FontCheckUnlessCached ==
    /\ pc = "fontCheck"
    /\ fontSourcePath' = ResolveFont(fontPath)
    /\ LET l == Append(log, Ev("fontCheck", fontSourcePath')) IN
        IF fontSourcePath' \in readable \/ Weights \subseteq DOMAIN cache
        THEN Goto("loadFonts", l)
        ELSE /\ pc' = "done"
             /\ log' = l \o <<Ev("spinner.stop", FALSE), Ev("cli.error", "Font not found"), Ev("cli.info", "Please provide font path"), Ev("return", FALSE)>>
             /\ result' = "false"
             /\ pdfResult' = pdfResult
    /\ UNCHANGED <<aux, fs0, caller, fontPath, fonts, wi, logosLoaded, si, cur, pngPaths,
                   pdfDoc, pj, files, unlinked, readable, cache, dirs, slideFiles, outDoc>>

\* the font-source check: try { await Bun.file(fontSourcePath).arrayBuffer() } catch { ... return false }
FontCheck ==
    /\ pc = "fontCheck"
    /\ fontSourcePath' = ResolveFont(fontPath)
    /\ LET l == Append(log, Ev("fontCheck", fontSourcePath')) IN
        IF fontSourcePath' \in readable
        THEN Goto("loadFonts", l)
        ELSE /\ pc' = "done"
             /\ log' = l \o <<Ev("spinner.stop", FALSE), Ev("cli.error", "Font not found"), Ev("cli.info", "Please provide font path"), Ev("return", FALSE)>>
             /\ result' = "false"
             /\ pdfResult' = pdfResult
    /\ UNCHANGED <<aux, fs0, caller, fontPath, fonts, wi, logosLoaded, si, cur, pngPaths,
                   pdfDoc, pj, files, unlinked, readable, cache, dirs, slideFiles, outDoc>>

\* ------------------------------------------------------------ loadFonts
\* await mkdir(CACHE_DIR, { recursive: true })
LoadFontsMkdir ==
    /\ pc = "loadFonts"
    /\ \E ok \in BOOLEAN :
        LET l == Append(Info(log, "Loading fonts and assets..."), Ev("mkdir", CACHE_DIR)) IN
        IF ok
        THEN /\ dirs' = dirs \cup {CACHE_DIR}
             /\ wi' = 1
             /\ Goto("fontExists", l)
        ELSE /\ dirs' = dirs
             /\ wi' = wi
             /\ Throw(l)
    /\ UNCHANGED <<aux, fs0, caller, fontPath, fontSourcePath, fonts, logosLoaded, si, cur, pngPaths,
                   pdfDoc, pj, files, unlinked, readable, cache, slideFiles, outDoc>>

\* fault variant of fontExists: the cache is never found
fontExistsNever(weight) == FALSE

fontExistsForSource(weight) == weight \in DOMAIN cache /\ cache[weight].src = fontSourcePath

\* fontExists(path): the cached file can be read
fontExists(weight) == weight \in DOMAIN cache

\* fault variant of AfterWeight: only the first weight is looked at
AfterWeightFirstOnly(k) == "readFonts"

\* where loadFonts goes once the weight at index k is in the cache
AfterWeight(k) == IF k = Len(FONT_WEIGHTS) THEN "readFonts" ELSE "fontExists"

\* if (!await fontExists(xPath)) { ... } for the weight loadFonts is at
FontExists ==
    /\ pc = "fontExists"
    /\ LET l == Append(log, Ev("fontExists", FONT_WEIGHTS[wi])) IN
        IF fontExists(FONT_WEIGHTS[wi])
        THEN /\ wi' = IF wi = Len(FONT_WEIGHTS) THEN wi ELSE wi + 1
             /\ Goto(AfterWeight(wi), l)
        ELSE /\ wi' = wi
             /\ Goto("createSlideFont", l)
    /\ UNCHANGED <<aux, fs0, caller, fontPath, fontSourcePath, fonts, logosLoaded, si, cur, pngPaths,
                   pdfDoc, pj, files, unlinked, readable, cache, dirs, slideFiles, outDoc>>

\* new Error(`Failed to create static font at weight ${weight}: ${stderr}`)
FontError(weight) == [message |-> "Failed to create static font at weight", weight |-> weight, stderr |-> "stderr of python3"]

ExitNeverFailed(code) == FALSE

\* if (exitCode !== 0)
ExitFailed(code) == code # 0

\* await createSlideFont(fontSourcePath, xPath, weight): python3 exits 0 and has
\* saved the instance, or exits non-zero and createSlideFont throws
createSlideFont ==
    /\ pc = "createSlideFont"
    /\ \E code \in {0, 1} :
        LET l == log \o <<Ev("createSlideFont", FONT_WEIGHTS[wi]), Ev("exited", code)>> IN
        IF ~ExitFailed(code)
        THEN /\ cache' = [w \in DOMAIN cache \cup {FONT_WEIGHTS[wi]} |->
                            IF w = FONT_WEIGHTS[wi] THEN Derived(fontSourcePath, w) ELSE cache[w]]
             /\ wi' = IF wi = Len(FONT_WEIGHTS) THEN wi ELSE wi + 1
             /\ Goto(AfterWeight(wi), l)
        ELSE /\ cache' = cache
             /\ wi' = wi
             /\ Throw(Append(l, Ev("throw", FontError(FONT_WEIGHTS[wi]))))
    /\ UNCHANGED <<aux, fs0, caller, fontPath, fontSourcePath, fonts, logosLoaded, si, cur, pngPaths,
                   pdfDoc, pj, files, unlinked, readable, dirs, slideFiles, outDoc>>

\* const regular = await Bun.file(regularPath).arrayBuffer(); medium; bold; return
ReadFonts ==
    /\ pc = "readFonts"
    /\ LET l == Append(log, Ev("readFonts", "")) IN
        IF Weights \subseteq DOMAIN cache
        THEN /\ fonts' = [k \in 1..Len(FONT_WEIGHTS) |-> cache[FONT_WEIGHTS[k]]]
             /\ Goto("loadLogo", l)
        ELSE /\ fonts' = fonts
             /\ Throw(l)
    /\ UNCHANGED <<aux, fs0, caller, fontPath, fontSourcePath, wi, logosLoaded, si, cur, pngPaths,
                   pdfDoc, pj, files, unlinked, readable, cache, dirs, slideFiles, outDoc>>

\* ------------------------------------------------------------ assets
\* const logoDataUrl = await loadLogoDataUrl()
loadLogoDataUrl ==
    /\ pc = "loadLogo"
    /\ LET l == Append(log, Ev("loadLogo", LOGO_PATH)) IN
        IF LOGO_PATH \in readable
        THEN /\ logosLoaded' = Append(logosLoaded, LOGO_PATH)
             /\ Goto("loadLockedUpLogo", l)
        ELSE /\ logosLoaded' = logosLoaded
             /\ Throw(l)
    /\ UNCHANGED <<aux, fs0, caller, fontPath, fontSourcePath, fonts, wi, si, cur, pngPaths,
                   pdfDoc, pj, files, unlinked, readable, cache, dirs, slideFiles, outDoc>>

\* const lockedUpLogoDataUrl = await loadLockedUpLogoDataUrl(); const slides = [...]; const pngPaths = []
loadLockedUpLogoDataUrl ==
    /\ pc = "loadLockedUpLogo"
    /\ LET l == Append(log, Ev("loadLogo", LOCKEDUP_LOGO_PATH)) IN
        IF LOCKEDUP_LOGO_PATH \in readable
        THEN /\ logosLoaded' = Append(logosLoaded, LOCKEDUP_LOGO_PATH)
             /\ si' = 1
             /\ pngPaths' = <<>>
             /\ Goto("generate", l)
        ELSE /\ logosLoaded' = logosLoaded
             /\ si' = si
             /\ pngPaths' = pngPaths
             /\ Throw(l)
    /\ UNCHANGED <<aux, fs0, caller, fontPath, fontSourcePath, fonts, wi, cur,
                   pdfDoc, pj, files, unlinked, readable, cache, dirs, slideFiles, outDoc>>

\* ------------------------------------------------------------ the slide loop
\* const svg = await slide.generate()
Generate ==
    /\ pc = "generate"
    /\ \E ok \in BOOLEAN :
        LET l == Append(Info(log, "Generating"), Ev("generate", slides[si])) IN
        IF ok
        THEN /\ cur' = Svg(slides[si], fonts)
             /\ Goto("svgToPng", l)
        ELSE /\ cur' = cur
             /\ Throw(l)
    /\ UNCHANGED <<aux, fs0, caller, fontPath, fontSourcePath, fonts, wi, logosLoaded, si, pngPaths,
                   pdfDoc, pj, files, unlinked, readable, cache, dirs, slideFiles, outDoc>>

\* const png = await svgToPng(svg)
svgToPng ==
    /\ pc = "svgToPng"
    /\ \E ok \in BOOLEAN :
        LET l == Append(log, Ev("svgToPng", slides[si])) IN
        IF ok
        THEN /\ cur' = Png(cur)
             /\ Goto("writePng", l)
        ELSE /\ cur' = cur
             /\ Throw(l)
    /\ UNCHANGED <<aux, fs0, caller, fontPath, fontSourcePath, fonts, wi, logosLoaded, si, pngPaths,
                   pdfDoc, pj, files, unlinked, readable, cache, dirs, slideFiles, outDoc>>

\* fault variant of AfterSlide: the loop stops one slide short
AfterSlideCleansFirst(k) == IF k = Len(slides) THEN "readdir" ELSE "generate"

AfterSlideOneShort(k) == IF k >= Len(slides) - 1 THEN "pdfCreate" ELSE "generate"

\* where the for loop goes after the slide at index k
AfterSlide(k) == IF k = Len(slides) THEN "pdfCreate" ELSE "generate"

\* fault variant of WritePng: Bun.write is not awaited, the path is pushed and the
\* loop goes on before the raster is in the directory
WritePngNoAwait ==
    /\ pc = "writePng"
    /\ slideFiles' = slideFiles
    /\ pngPaths' = Append(pngPaths, PngName(slides[si]))
    /\ si' = IF si = Len(slides) THEN si ELSE si + 1
    /\ Goto(AfterSlide(si), Append(log, Ev("write", PngName(slides[si]))))
    /\ UNCHANGED <<aux, fs0, caller, fontPath, fontSourcePath, fonts, wi, logosLoaded, cur,
                   pdfDoc, pj, files, unlinked, readable, cache, dirs, outDoc>>

\* await Bun.write(outputPath, png); pngPaths.push(outputPath): the write succeeds,
\* fails leaving the directory as it was, or fails leaving a file cut short
WritePng ==
    /\ pc = "writePng"
    /\ \E outcome \in {"ok", "failed", "truncated"} :
        LET l == Append(log, Ev("write", PngName(slides[si]))) IN
        IF outcome = "ok"
        THEN /\ slideFiles' = WithFile(slideFiles, PngName(slides[si]), cur)
             /\ pngPaths' = Append(pngPaths, PngName(slides[si]))
             /\ si' = IF si = Len(slides) THEN si ELSE si + 1
             /\ Goto(AfterSlide(si), IF verbose THEN Append(l, Ev("cli.success", "Created")) ELSE l)
        ELSE /\ slideFiles' = IF outcome = "truncated"
                              THEN WithFile(slideFiles, PngName(slides[si]), Truncated)
                              ELSE slideFiles
             /\ pngPaths' = pngPaths
             /\ si' = si
             /\ Throw(l)
    /\ UNCHANGED <<aux, fs0, caller, fontPath, fontSourcePath, fonts, wi, logosLoaded, cur,
                   pdfDoc, pj, files, unlinked, readable, cache, dirs, outDoc>>

ExistingDocument == outDoc.pages

\* PDFDocument.create(): a document without pages
NewDocument == <<>>

\* ------------------------------------------------------------ generatePDF
\* const pdfDoc = await PDFDocument.create(); for (const pngPath of pngPaths)
PDFCreate ==
    /\ pc = "pdfCreate"
    /\ pdfDoc' = NewDocument
    /\ pj' = 1
    /\ Goto(IF pngPaths = <<>> THEN "pdfSave" ELSE "pdfEmbed", Append(Info(log, "Generating PDF..."), Ev("PDFDocument.create", "")))
    /\ UNCHANGED <<aux, fs0, caller, fontPath, fontSourcePath, fonts, wi, logosLoaded, si, cur, pngPaths,
                   files, unlinked, readable, cache, dirs, slideFiles, outDoc>>

\* fault variant of PDFEmbed: the document is saved to the output path after every page
PDFEmbedSaving ==
    /\ pc = "pdfEmbed"
    /\ LET pngPath == pngPaths[pj]
           l == Append(log, Ev("readFile", pngPath))
       IN  IF pngPath \in DOMAIN slideFiles /\ slideFiles[pngPath].kind = "png"
           THEN /\ pdfDoc' = Append(pdfDoc, Page(slideFiles[pngPath]))
                /\ outDoc' = [state |-> "complete", pages |-> pdfDoc']
                /\ pj' = IF pj = Len(pngPaths) THEN pj ELSE pj + 1
                /\ Goto(IF pj = Len(pngPaths) THEN "pdfSave" ELSE "pdfEmbed", Append(l, Ev("Bun.write", "presentation.pdf")))
           ELSE /\ pdfDoc' = pdfDoc
                /\ outDoc' = outDoc
                /\ pj' = pj
                /\ Throw(l)
    /\ UNCHANGED <<aux, fs0, caller, fontPath, fontSourcePath, fonts, wi, logosLoaded, si, cur, pngPaths,
                   files, unlinked, readable, cache, dirs, slideFiles>>

\* the body of the for loop: readFile, embedPng, addPage([pageWidth, pageHeight]), drawImage
PDFEmbed ==
    /\ pc = "pdfEmbed"
    /\ LET pngPath == pngPaths[pj]
           l == Append(log, Ev("readFile", pngPath))
       IN  IF pngPath \in DOMAIN slideFiles /\ slideFiles[pngPath].kind = "png"
           THEN /\ pdfDoc' = Append(pdfDoc, Page(slideFiles[pngPath]))
                /\ pj' = IF pj = Len(pngPaths) THEN pj ELSE pj + 1
                /\ Goto(IF pj = Len(pngPaths) THEN "pdfSave" ELSE "pdfEmbed", l)
           ELSE /\ pdfDoc' = pdfDoc
                /\ pj' = pj
                /\ Throw(l)
    /\ UNCHANGED <<aux, fs0, caller, fontPath, fontSourcePath, fonts, wi, logosLoaded, si, cur, pngPaths,
                   files, unlinked, readable, cache, dirs, slideFiles, outDoc>>

\* const pdfBytes = await pdfDoc.save(); await Bun.write(outputPath, pdfBytes): the
\* write succeeds, fails leaving the path as it was, or fails leaving a file cut short
PDFSave ==
    /\ pc = "pdfSave"
    /\ \E outcome \in {"ok", "failed", "truncated"} :
        LET l == Append(log, Ev("Bun.write", "presentation.pdf")) IN
        IF outcome = "ok"
        THEN /\ outDoc' = [state |-> "complete", pages |-> pdfDoc]
             /\ pc' = IF caller = "generatePresentation" THEN "readdir" ELSE "done"
             /\ log' = l
             /\ result' = result
             /\ pdfResult' = "returned"
        ELSE /\ outDoc' = IF outcome = "truncated" THEN TruncatedDoc ELSE outDoc
             /\ Throw(l)
    /\ UNCHANGED <<aux, fs0, caller, fontPath, fontSourcePath, fonts, wi, logosLoaded, si, cur, pngPaths,
                   pdfDoc, pj, files, unlinked, readable, cache, dirs, slideFiles>>

\* ------------------------------------------------------------ cleanupSlides
\* fault variant of AfterEntry: the loop ends after one entry
AfterEntryFirstOnly(left) == "finish"

\* where cleanupSlides goes with these entries left to visit
AfterEntry(left) == IF left = {} THEN "finish" ELSE "unlink"

\* fault variant of CleanupCatch: no try/catch, the exception leaves cleanupSlides
CleanupRethrow(l) == Throw(l)

CleanupCatchLogs(l) == Goto("finish", Append(l, Ev("cli.warning", "Failed to clean up")))

\* catch { /* Directory doesn't exist, nothing to clean */ }: cleanupSlides returns
CleanupCatch(l) == Goto("finish", l)

\* const files = await readdir(slidesDir), inside try { } catch { }
Readdir ==
    /\ pc = "readdir"
    /\ \E ok \in BOOLEAN :
        LET l == Append(Info(log, "Cleaning up temporary PNG files..."), Ev("readdir", SLIDES_DIR)) IN
        IF ok /\ SLIDES_DIR \in dirs
        THEN /\ files' = DOMAIN slideFiles
             /\ Goto(AfterEntry(DOMAIN slideFiles), l)
        ELSE /\ files' = files
             /\ CleanupCatch(Append(l, Ev("readdir threw", SLIDES_DIR)))
    /\ UNCHANGED <<aux, fs0, caller, fontPath, fontSourcePath, fonts, wi, logosLoaded, si, cur, pngPaths,
                   pdfDoc, pj, unlinked, readable, cache, dirs, slideFiles, outDoc>>

\* one turn of for (const file of files): if (file.endsWith('.png')) await unlink(...);
\* the listing's order is the directory's, so any entry may come next; an unlink that
\* throws leaves the loop for the empty catch
Unlink ==
    /\ pc = "unlink"
    /\ \E file \in files, ok \in BOOLEAN :
        IF EndsWithPng(file)
        THEN IF ok
             THEN /\ slideFiles' = WithoutFile(slideFiles, file)
                  /\ unlinked' = unlinked \cup {file}
                  /\ files' = files \ {file}
                  /\ Goto(AfterEntry(files \ {file}), log)
             ELSE /\ slideFiles' = slideFiles
                  /\ unlinked' = unlinked
                  /\ files' = files
                  /\ CleanupCatch(Append(log, Ev("unlink threw", "")))
        ELSE /\ slideFiles' = slideFiles
             /\ unlinked' = unlinked
             /\ files' = files \ {file}
             /\ Goto(AfterEntry(files \ {file}), log)
    /\ UNCHANGED <<aux, fs0, caller, fontPath, fontSourcePath, fonts, wi, logosLoaded, si, cur, pngPaths,
                   pdfDoc, pj, readable, cache, dirs, outDoc>>

\* spinner.stop(true); cli.success(...); return true
Finish ==
    /\ pc = "finish"
    /\ pc' = "done"
    /\ log' = log \o <<Ev("spinner.stop", TRUE), Ev("cli.success", "Presentation generated"), Ev("return", TRUE)>>
    /\ result' = "true"
    /\ UNCHANGED <<aux, fs0, caller, fontPath, fontSourcePath, fonts, wi, logosLoaded, si, cur, pngPaths,
                   pdfDoc, pj, files, pdfResult, unlinked, readable, cache, dirs, slideFiles, outDoc>>

\* ------------------------------------------------------------ specifications
Next ==
    \/ Start
    \/ MkdirSlides
    \/ FontCheck
    \/ LoadFontsMkdir
    \/ FontExists
    \/ createSlideFont
    \/ ReadFonts
    \/ loadLogoDataUrl
    \/ loadLockedUpLogoDataUrl
    \/ Generate
    \/ svgToPng
    \/ WritePng
    \/ PDFCreate
    \/ PDFEmbed
    \/ PDFSave
    \/ Readdir
    \/ Unlink
    \/ Finish

\* one process running generatePresentation
Spec == Init /\ [][Next]_vars

\* a raster of any pixel size
Raster(id, width, height) == [kind |-> "png", slide |-> id, fonts |-> <<>>, w |-> width, h |-> height]

\* the files generatePDF may be pointed at; gone.png does not exist
PDFInputs == [f \in {PngName("a"), PngName("b"), <<"c", "txt">>} |->
                IF f = PngName("a") THEN Raster("a", 100, 50)
                ELSE IF f = PngName("b") THEN Raster("b", WIDTH, HEIGHT)
                ELSE TextFile]
PDFPaths == DOMAIN PDFInputs \cup {PngName("gone")}

\* generatePDF(pngPaths, outputPath) called on its own
InitPDF ==
    /\ pc = "pdfCreate"
    /\ caller = "generatePDF"
    /\ fontPath = UNDEFINED
    /\ verbose = FALSE
    /\ NotEntered
    /\ \E n \in 0..MaxPaths : pngPaths \in [1..n -> PDFPaths]
    /\ Locals
    /\ readable = {}
    /\ cache = [w \in {} |-> Derived(DEFAULT_FONT, w)]
    /\ dirs = {OUTPUT_DIR, SLIDES_DIR}
    /\ slideFiles = PDFInputs
    /\ outDoc \in {NoDoc, OldDoc}
    /\ fs0 = [cache |-> cache, slideFiles |-> slideFiles, outDoc |-> outDoc]

NextPDF ==
    \/ PDFCreate
    \/ PDFEmbed
    \/ PDFSave

SpecPDF == InitPDF /\ [][NextPDF]_vars

\* ------------------------------------------------------------ main
\* the words of the command line
Flags == {"--verbose", "-v", "--help", "-h", "--font", CUSTOM_FONT}

\* the longest command line
MaxArgs == 2

\* args.includes(x)
Includes(a, x) == \E k \in 1..Len(a) : a[k] = x

\* args.indexOf(x), counted from 1, 0 when absent
IndexOf(a, x) == IF Includes(a, x) THEN CHOOSE k \in 1..Len(a) : a[k] = x /\ \A m \in 1..(k - 1) : a[m] # x ELSE 0

\* if (fontIndex !== -1 && args[fontIndex + 1]) fontPath = args[fontIndex + 1]
ParseFont(a) ==
    LET fontIndex == IndexOf(a, "--font")
    IN  IF fontIndex # 0 /\ fontIndex + 1 <= Len(a) THEN a[fontIndex + 1] ELSE UNDEFINED

\* the process starts in main; the caches of an earlier run are complete or absent
InitMain ==
    /\ pc = "notCalled"
    /\ caller = "generatePresentation"
    /\ mainpc = "main"
    /\ exitCode = -1
    /\ \E n \in 0..MaxArgs : args \in [1..n -> Flags]
    /\ fontPath = UNDEFINED
    /\ verbose = FALSE
    /\ activities = <<>>
    /\ sorted = <<>>
    /\ NotBuilt
    /\ pngPaths = <<>>
    /\ Locals
    /\ readable \in {{DEFAULT_FONT, CUSTOM_FONT, LOGO_PATH, LOCKEDUP_LOGO_PATH},
                      {CUSTOM_FONT, LOGO_PATH, LOCKEDUP_LOGO_PATH},
                      {DEFAULT_FONT, LOGO_PATH}}
    /\ \E S \in {{}, Weights} : cache = [w \in S |-> Derived(DEFAULT_FONT, w)]
    /\ dirs = {OUTPUT_DIR, SLIDES_DIR, CACHE_DIR}
    /\ slideFiles = NoFiles
    /\ outDoc = NoDoc
    /\ fs0 = [cache |-> cache, slideFiles |-> slideFiles, outDoc |-> outDoc]

\* main up to the call of generatePresentation, or to process.exit(0) after the help text
Main ==
    /\ mainpc = "main"
    /\ IF Includes(args, "--help") \/ Includes(args, "-h")
       THEN /\ log' = Append(log, Ev("console.log", "USAGE"))
            /\ exitCode' = 0
            /\ mainpc' = "exited"
            /\ UNCHANGED <<pc, verbose, fontPath>>
       ELSE /\ log' = Append(log, Ev("cli.header", "Presentation Generator"))
            /\ verbose' = (Includes(args, "--verbose") \/ Includes(args, "-v"))
            /\ fontPath' = ParseFont(args)
            /\ mainpc' = "called"
            /\ pc' = "idle"
            /\ exitCode' = exitCode
    /\ UNCHANGED <<args, activities, sorted, built, spinnerVars, fs0, caller, fontSourcePath, fonts, wi, logosLoaded, si, cur,
                   pngPaths, pdfDoc, pj, files, result, pdfResult, unlinked, readable, cache, dirs,
                   slideFiles, outDoc>>

\* an exception leaves generatePresentation: the spinner is made and started outside its try block
SpinnerRaises ==
    /\ mainpc = "called"
    /\ pc = "idle"
    /\ pc' = "raised"
    /\ UNCHANGED <<verbose, args, mainpc, exitCode, activities, sorted, built, spinnerVars, fs0, caller, fontPath,
                   fontSourcePath, fonts, wi, logosLoaded, si, cur, pngPaths, pdfDoc, pj, files, result,
                   pdfResult, log, unlinked, readable, cache, dirs, slideFiles, outDoc>>

ExitCodeAlwaysZero(success) == 0

\* if (!success) process.exit(1); a main that returns lets the process end with code 0
ExitCodeOf(success) == IF success THEN 0 ELSE 1

\* const success = await generatePresentation(verbose, fontPath) has returned
MainReturn ==
    /\ mainpc = "called"
    /\ pc = "done"
    /\ exitCode' = ExitCodeOf(result = "true")
    /\ mainpc' = "exited"
    /\ UNCHANGED <<pc, verbose, args, activities, sorted, built, spinnerVars, fs0, caller, fontPath, fontSourcePath, fonts, wi,
                   logosLoaded, si, cur, pngPaths, pdfDoc, pj, files, result, pdfResult, log, unlinked,
                   readable, cache, dirs, slideFiles, outDoc>>

\* main().catch((error) => { cli.error(...); process.exit(1) })
MainCatch ==
    /\ mainpc = "called"
    /\ pc = "raised"
    /\ log' = Append(log, Ev("cli.error", "Presentation generation failed"))
    /\ exitCode' = 1
    /\ mainpc' = "exited"
    /\ UNCHANGED <<pc, verbose, args, activities, sorted, built, spinnerVars, fs0, caller, fontPath, fontSourcePath, fonts, wi,
                   logosLoaded, si, cur, pngPaths, pdfDoc, pj, files, result, pdfResult, unlinked,
                   readable, cache, dirs, slideFiles, outDoc>>

NextMain ==
    \/ Main
    \/ SpinnerRaises
    \/ Next
    \/ MainReturn
    \/ MainCatch

SpecMain == InitMain /\ [][NextMain]_vars

\* ------------------------------------------------------------ a run after an interrupted run
\* the file font.save(outputPath) leaves at the cache path when python3 is killed while it writes
CutShort(weight) == [src |-> "cut short", wght |-> weight]

\* the caches an interrupted run leaves: any weights derived, at most one file cut short
InterruptedCaches ==
    {c \in UNION {[S -> {"whole", "cut short"}] : S \in SUBSET Weights} :
        Cardinality({w \in DOMAIN c : c[w] = "cut short"}) <= 1}

\* the rasters an interrupted run leaves: none, or the first two and the third cut short
InterruptedSlides ==
    {NoFiles,
     [f \in {PngName(slides[k]) : k \in 1..3} |->
        IF f = PngName(slides[3]) THEN Truncated
        ELSE Png(Svg(f[1], [k \in 1..Len(FONT_WEIGHTS) |-> Derived(DEFAULT_FONT, FONT_WEIGHTS[k])]))]}

\* a run with the default font source and all inputs readable, after an interrupted run
InitRetry ==
    /\ pc = "idle"
    /\ caller = "generatePresentation"
    /\ fontPath = UNDEFINED
    /\ verbose = FALSE
    /\ NotEntered
    /\ pngPaths = <<>>
    /\ Locals
    /\ readable = {DEFAULT_FONT, LOGO_PATH, LOCKEDUP_LOGO_PATH}
    /\ \E c \in InterruptedCaches :
        cache = [w \in DOMAIN c |-> IF c[w] = "whole" THEN Derived(DEFAULT_FONT, w) ELSE CutShort(w)]
    /\ dirs = {OUTPUT_DIR, SLIDES_DIR, CACHE_DIR}
    /\ slideFiles \in InterruptedSlides
    /\ outDoc = NoDoc
    /\ fs0 = [cache |-> cache, slideFiles |-> slideFiles, outDoc |-> outDoc]

SpecRetry == InitRetry /\ [][Next]_vars

\* ------------------------------------------------------------ cleanupSlides on its own
\* the entries a slides directory may hold when cleanupSlides is called
CleanupEntries == {PngName("a"), PngName("b"), PngName("c"), <<"notes", "txt">>}

\* cleanupSlides(slidesDir) is called; the directory exists or not
InitCleanup ==
    /\ pc = "readdir"
    /\ caller = "cleanupSlides"
    /\ fontPath = UNDEFINED
    /\ verbose = FALSE
    /\ NotEntered
    /\ pngPaths = <<>>
    /\ Locals
    /\ readable = {}
    /\ cache = [w \in {} |-> Derived(DEFAULT_FONT, w)]
    /\ dirs \in {{OUTPUT_DIR, SLIDES_DIR}, {OUTPUT_DIR}}
    /\ \E S \in (IF SLIDES_DIR \in dirs THEN SUBSET CleanupEntries ELSE {{}}) :
        slideFiles = [f \in S |-> IF EndsWithPng(f) THEN Raster(f[1], WIDTH, HEIGHT) ELSE TextFile]
    /\ outDoc = NoDoc
    /\ fs0 = [cache |-> cache, slideFiles |-> slideFiles, outDoc |-> outDoc]

\* cleanupSlides has returned when pc is "finish"
NextCleanup ==
    \/ Readdir
    \/ Unlink

SpecCleanup == InitCleanup /\ [][NextCleanup]_vars

\* ------------------------------------------------------------ sortActivitiesByTime
\* the state of a run of generatePresentation, without pc
runVars == <<caller, fontPath, fontSourcePath, fonts, wi, logosLoaded, si, cur, pngPaths, pdfDoc,
             pj, files, result, pdfResult, log, unlinked, readable, cache, dirs, slideFiles,
             outDoc, fs0>>

\* a time string is the sequence of its characters: '23:00'
Clock(h1, h2, m1, m2) == <<h1, h2, ":", m1, m2>>

\* an Activity { name, room, time }
Activity(name, time) == [name |-> name, room |-> "Grand Amphi", time |-> time]

SCHEDULED_ACTIVITIES == <<Activity("Kahoot", Clock("2", "3", "0", "0")), Activity("Kahoot", Clock("0", "0", "0", "0"))>>

\* the time strings the function is applied to: both sides of noon and of midnight,
\* two times in one hour, and an hour written without its leading zero
TimeStrings == {Clock("2", "3", "0", "0"), Clock("0", "0", "0", "0"), Clock("0", "8", "0", "0"),
                Clock("0", "8", "3", "0"), <<"8", ":", "0", "0">>, Clock("1", "2", "0", "0"),
                Clock("1", "1", "3", "0")}

Activities == {Activity(n, t) : n \in {"Kahoot", "Film"}, t \in TimeStrings}

\* the longest list sorted
MaxActs == 3

\* Number(c) of a one-digit string
DigitValue == [c \in {"0", "1", "2", "3", "4", "5", "6", "7", "8", "9"} |->
    CASE c = "0" -> 0 [] c = "1" -> 1 [] c = "2" -> 2 [] c = "3" -> 3 [] c = "4" -> 4
      [] c = "5" -> 5 [] c = "6" -> 6 [] c = "7" -> 7 [] c = "8" -> 8 [] c = "9" -> 9]

\* time.split(':')[0]
HourText(time) ==
    LET colons == {k \in 1..Len(time) : time[k] = ":"}
        first == IF colons = {} THEN Len(time) + 1 ELSE CHOOSE k \in colons : \A m \in colons : k <= m
    IN  SubSeq(time, 1, first - 1)

\* Number(str) of a string of decimal digits; Number('') is 0
RECURSIVE Number(_)
Number(str) ==
    IF str = <<>> THEN 0
    ELSE 10 * Number(SubSeq(str, 1, Len(str) - 1)) + DigitValue[str[Len(str)]]

\* const [aHour] = a.time.split(':').map(Number)
Hour(time) == Number(HourText(time))

SortKeyNoRemap(hour) == hour

\* aHour < 12 ? aHour + 24 : aHour
SortKey(hour) == IF hour < 12 THEN hour + 24 ELSE hour

\* the collation order of the characters of a time string: punctuation before digits
CharRank(c) == IF c = ":" THEN 0 ELSE 1 + DigitValue[c]

\* a.localeCompare(b): negative, zero or positive
RECURSIVE localeCompare(_, _)
localeCompare(a, b) ==
    CASE a = <<>> /\ b = <<>> -> 0
      [] a = <<>> /\ b # <<>> -> -1
      [] a # <<>> /\ b = <<>> -> 1
      [] OTHER -> IF CharRank(Head(a)) < CharRank(Head(b)) THEN -1
                  ELSE IF CharRank(Head(a)) > CharRank(Head(b)) THEN 1
                  ELSE localeCompare(Tail(a), Tail(b))

\* the comparator: aSort - bSort || a.time.localeCompare(b.time)
Compare(a, b) ==
    LET d == SortKey(Hour(a.time)) - SortKey(Hour(b.time))
    IN  IF d # 0 THEN d ELSE localeCompare(a.time, b.time)

InsertUnstable(s, x, j) ==
    LET before == {k \in 1..Len(s) : Compare(s[k], x) < 0}
        n == Cardinality(before)
    IN  SubSeq(s, 1, n) \o <<x>> \o SubSeq(s, n + 1, Len(s))

\* Array.prototype.sort is stable: x goes behind the last element that does not come after it
RECURSIVE Insert(_, _, _)
Insert(s, x, j) ==
    IF j >= 1 /\ Compare(s[j], x) > 0 THEN Insert(s, x, j - 1)
    ELSE SubSeq(s, 1, j) \o <<x>> \o SubSeq(s, j + 1, Len(s))

\* [...activities].sort(comparator)
RECURSIVE sortActivitiesByTime(_)
sortActivitiesByTime(acts) ==
    IF acts = <<>> THEN <<>>
    ELSE LET front == sortActivitiesByTime(SubSeq(acts, 1, Len(acts) - 1))
         IN  Insert(front, acts[Len(acts)], Len(front))

InitSort ==
    /\ pc = "sort"
    /\ caller = "sortActivitiesByTime"
    /\ fontPath = UNDEFINED
    /\ verbose = FALSE
    /\ args = <<>>
    /\ mainpc = "none"
    /\ exitCode = -1
    /\ \E n \in 0..MaxActs : activities \in [1..n -> Activities]
    /\ sorted = <<>>
    /\ NotBuilt
    /\ pngPaths = <<>>
    /\ Locals
    /\ readable = {}
    /\ cache = [w \in {} |-> Derived(DEFAULT_FONT, w)]
    /\ dirs = {}
    /\ slideFiles = NoFiles
    /\ outDoc = NoDoc
    /\ fs0 = [cache |-> cache, slideFiles |-> slideFiles, outDoc |-> outDoc]

\* const sortedActivities = sortActivitiesByTime(activities): the argument is copied, not changed
SortCall ==
    /\ pc = "sort"
    /\ pc' = "sorted"
    /\ sorted' = sortActivitiesByTime(activities)
    /\ activities' = activities
    /\ UNCHANGED <<runVars, verbose, args, mainpc, exitCode, built, spinnerVars>>

\* the caller passes a list it got from sortActivitiesByTime to it again
SortAgain ==
    /\ pc = "sorted"
    /\ sorted # activities
    /\ pc' = "sort"
    /\ activities' = sorted
    /\ sorted' = <<>>
    /\ UNCHANGED <<runVars, verbose, args, mainpc, exitCode, built, spinnerVars>>

NextSort ==
    \/ SortCall
    \/ SortAgain

SpecSort == InitSort /\ [][NextSort]_vars


\* ------------------------------------------------------------ the slide builders
COLORS == [bg |-> "#000000", blue |-> "#2563eb", deepBlue |-> "#1e40af", indigo |-> "#4f46e5",
           cyan |-> "#0891b2", text |-> "#ffffff", textSecondary |-> "#a1a1a1"]
ASSO_NAME == "Asso Info Evry"
DISCORD_URL == "https://discord.gg/fxWsSSee"
NDI_URL == "https://www.nuitdelinfo.com/"
ASSO_URL == "https://asso.info-evry.fr"
SUBJECT_URL == "https://filesender.renater.fr/?s=download&token=1ee59758-cb41-400c-b6c2-47fc37e1804e"

\* an element { type, props: { style, children } }: the style is its set of
\* <<property, value>> pairs, content the text or image source of a leaf
Element(type, style, children, content) == [type |-> type, style |-> style, children |-> children, content |-> content]

\* an orb placed by two of top, bottom, left, right; "" for a side left undefined
Orb(top, bottom, left, right, size, color, opacity) ==
    [top |-> top, bottom |-> bottom, left |-> left, right |-> right, width |-> size, height |-> size,
     color |-> color, opacity |-> opacity]

SLIDE_ORBS ==
    <<Orb("-800px", "", "", "-400px", "2400px", COLORS.blue, "28"),
      Orb("", "-1000px", "-600px", "", "2800px", COLORS.deepBlue, "22"),
      Orb("40%", "", "", "15%", "1600px", COLORS.indigo, "18"),
      Orb("-400px", "", "5%", "", "1400px", COLORS.cyan, "14")>>

\* the element of one orb: the sides that are defined become style properties
OrbElement(orb) ==
    Element("div",
            {<<"position", "absolute">>, <<"width", orb.width>>, <<"height", orb.height>>,
             <<"borderRadius", "50%">>, <<"background", orb.color>>, <<"opacity", orb.opacity>>}
            \cup {<<side, orb[side]>> : side \in {sd \in {"top", "bottom", "left", "right"} : orb[sd] # ""}},
            <<>>, "")

\* SLIDE_ORBS.map(...)
generateOrbs == [k \in 1..Len(SLIDE_ORBS) |-> OrbElement(SLIDE_ORBS[k])]

createGrid ==
    Element("div",
            {<<"position", "absolute">>, <<"top", "0">>, <<"left", "0">>, <<"right", "0">>, <<"bottom", "0">>,
             <<"backgroundSize", "160px 160px">>},
            <<>>, "")

\* a logo dot and the name of the association, at a fixed offset from the top left
createHeader ==
    Element("div",
            {<<"position", "absolute">>, <<"top", "96px">>, <<"left", "128px">>, <<"display", "flex">>,
             <<"alignItems", "center">>, <<"gap", "32px">>},
            <<Element("div", {<<"width", "32px">>, <<"height", "32px">>, <<"borderRadius", "50%">>,
                              <<"backgroundColor", COLORS.blue>>}, <<>>, ""),
              Element("div", {<<"fontSize", "56px">>, <<"fontWeight", "500">>, <<"color", COLORS.textSecondary>>,
                              <<"letterSpacing", "0.02em">>}, <<>>, ASSO_NAME)>>,
            "")

\* the root element of a slide; the title and QR slides centre their content
Root(centred, children) ==
    Element("div",
            {<<"width", "100%">>, <<"height", "100%">>, <<"display", "flex">>, <<"flexDirection", "column">>,
             <<"backgroundColor", COLORS.bg>>, <<"position", "relative">>, <<"overflow", "hidden">>}
            \cup (IF centred THEN {<<"alignItems", "center">>, <<"justifyContent", "center">>} ELSE {}),
            children, "")

\* the content of a slide below its first element is kept as text and image leaves
Leaf(content) == Element("div", {}, <<>>, content)
Image(src) == Element("img", {}, <<>>, src)

\* generateQRCode(url, size): the data URL of the QR code of url
generateQRCode(url) == Image(url)

generateTitleSlide ==
    Root(TRUE, generateOrbs \o <<createGrid,
         Element("div", {<<"display", "flex">>, <<"flexDirection", "column">>, <<"alignItems", "center">>,
                         <<"justifyContent", "center">>, <<"gap", "96px">>},
                 <<Image(LOGO_PATH), Leaf(ASSO_NAME)>>, "")>>)

HeaderAlways(showHeader) == <<createHeader>>

\* if (showHeader) children.push(createHeader())
HeaderIf(showHeader) == IF showHeader THEN <<createHeader>> ELSE <<>>

generateQRSlide(title, subtitle, url, showHeader) ==
    Root(TRUE, generateOrbs \o <<createGrid>> \o HeaderIf(showHeader) \o
         <<Element("div", {<<"display", "flex">>, <<"flexDirection", "row">>, <<"alignItems", "center">>,
                           <<"justifyContent", "center">>, <<"gap", "240px">>, <<"padding", "160px">>},
                   <<Leaf(title), Leaf(subtitle), generateQRCode(url)>>, "")>>)

\* one row per scheduled activity, in the order of sortActivitiesByTime, then the other activities
generateActivitiesSlide ==
    LET sortedActivities == sortActivitiesByTime(SCHEDULED_ACTIVITIES)
    IN  Root(FALSE, generateOrbs \o <<createGrid, createHeader,
             Element("div", {<<"display", "flex">>, <<"flexDirection", "column">>, <<"flex", "1">>,
                             <<"padding", "240px 128px 128px 128px">>, <<"gap", "64px">>},
                     [k \in 1..Len(sortedActivities) |-> Leaf(sortedActivities[k].name)]
                         \o <<Leaf("Escape Game"), Leaf("Console & Jeux de societe"), Leaf("Film")>>, "")>>)

generateEscapeGameSlide ==
    Root(FALSE, generateOrbs \o <<createGrid, createHeader,
         Element("div", {<<"display", "flex">>, <<"flexDirection", "column">>, <<"alignItems", "center">>,
                         <<"justifyContent", "center">>, <<"flex", "1">>, <<"padding", "160px">>, <<"gap", "80px">>},
                 <<Image(LOCKEDUP_LOGO_PATH)>>, "")>>)

generateAssoSlide ==
    Root(FALSE, generateOrbs \o <<createGrid,
         Element("div", {<<"display", "flex">>, <<"flexDirection", "column">>, <<"alignItems", "center">>,
                         <<"justifyContent", "center">>, <<"flex", "1">>, <<"padding", "160px">>, <<"gap", "80px">>},
                 <<Image(LOGO_PATH), generateQRCode(ASSO_URL)>>, "")>>)

\* const slides = [{ name, generate }, ...]: the builder call behind each slide
SlideElement(name) ==
    CASE name = "01-title" -> generateTitleSlide
      [] name = "02-discord" -> generateQRSlide("Discord", "Discord de l'evenement a Evry", DISCORD_URL, TRUE)
      [] name = "03-nuitdelinfo" -> generateQRSlide("Nuit de l'Info", "Site officiel - Inscription aux defis avant 21h", NDI_URL, TRUE)
      [] name = "04-programme" -> generateActivitiesSlide
      [] name = "05-escape-game" -> generateEscapeGameSlide
      [] name = "06-asso" -> generateAssoSlide
      [] name = "07-sujet" -> generateQRSlide("Sujet de la Nuit", "Telechargez le sujet officiel de l'evenement", SUBJECT_URL, TRUE)

\* the most builder calls followed
MaxBuilt == 2

InitSlides ==
    /\ pc = "build"
    /\ caller = "slides"
    /\ fontPath = UNDEFINED
    /\ verbose = FALSE
    /\ NotEntered
    /\ pngPaths = <<>>
    /\ Locals
    /\ readable = {}
    /\ cache = [w \in {} |-> Derived(DEFAULT_FONT, w)]
    /\ dirs = {}
    /\ slideFiles = NoFiles
    /\ outDoc = NoDoc
    /\ fs0 = [cache |-> cache, slideFiles |-> slideFiles, outDoc |-> outDoc]

\* slide.generate() for one entry of slides
GenerateSlide ==
    /\ pc = "build"
    /\ Len(built) < MaxBuilt
    /\ \E k \in 1..Len(slides) :
        built' = Append(built, [slide |-> slides[k], url |-> "", showHeader |-> TRUE, tree |-> SlideElement(slides[k])])
    /\ UNCHANGED <<pc, runVars, verbose, args, mainpc, exitCode, activities, sorted, spinnerVars>>

\* generateQRSlide(fonts, title, subtitle, url, showHeader) called with any link and either showHeader
CallQRSlide ==
    /\ pc = "build"
    /\ Len(built) < MaxBuilt
    /\ \E url \in {DISCORD_URL, NDI_URL, SUBJECT_URL, ASSO_URL}, showHeader \in BOOLEAN :
        built' = Append(built, [slide |-> "", url |-> url, showHeader |-> showHeader,
                                tree |-> generateQRSlide("title", "subtitle", url, showHeader)])
    /\ UNCHANGED <<pc, runVars, verbose, args, mainpc, exitCode, activities, sorted, spinnerVars>>

NextSlides ==
    \/ GenerateSlide
    \/ CallQRSlide

SpecSlides == InitSlides /\ [][NextSlides]_vars


\* ------------------------------------------------------------ Spinner, animated (isCI false)
\* private frames = [...]: the number of frames
FrameCount == 10

\* the most method calls made on one spinner
MaxCalls == 3

InitSpinner ==
    /\ pc = "spinner"
    /\ caller = "Spinner"
    /\ fontPath = UNDEFINED
    /\ verbose = FALSE
    /\ NotEntered
    /\ pngPaths = <<>>
    /\ Locals
    /\ readable = {}
    /\ cache = [w \in {} |-> Derived(DEFAULT_FONT, w)]
    /\ dirs = {}
    /\ slideFiles = NoFiles
    /\ outDoc = NoDoc
    /\ fs0 = [cache |-> cache, slideFiles |-> slideFiles, outDoc |-> outDoc]

\* what no method of the spinner assigns
notSpinner == <<pc, runVars, verbose, args, mainpc, exitCode, activities, sorted, built>>

\* start(): the first frame is written and this.interval = setInterval(..., 80); an
\* interval already held in this.interval is neither tested nor cleared
SpinnerStart ==
    /\ calls < MaxCalls
    /\ calls' = calls + 1
    /\ lastCall' = "start"
    /\ written' = "frame"
    /\ interval' = calls + 1
    /\ timers' = timers \cup {calls + 1}
    /\ UNCHANGED <<current, text, notSpinner>>

\* the callback of setInterval, run by any timer that is active
SpinnerTick ==
    /\ \E timer \in timers :
        /\ current' = (current + 1) % FrameCount
        /\ written' = "frame"
    /\ UNCHANGED <<interval, text, timers, calls, lastCall, notSpinner>>

\* stop(success): if (this.interval) { clearInterval(this.interval); this.interval = null };
\* then the status line is written
SpinnerStop ==
    /\ calls < MaxCalls
    /\ calls' = calls + 1
    /\ lastCall' = "stop"
    /\ \E success \in BOOLEAN :
        /\ timers' = IF interval # 0 THEN timers \ {interval} ELSE timers
        /\ interval' = 0
        /\ written' = "status"
    /\ UNCHANGED <<current, text, notSpinner>>

\* update(text): this.text = text
SpinnerUpdate ==
    /\ calls < MaxCalls
    /\ calls' = calls + 1
    /\ lastCall' = "update"
    /\ \E t \in {"Generating presentation", "Generating PDF"} : text' = t
    /\ UNCHANGED <<current, interval, timers, written, notSpinner>>

NextSpinner ==
    \/ SpinnerStart
    \/ SpinnerTick
    \/ SpinnerStop
    \/ SpinnerUpdate

SpecSpinner == InitSpinner /\ [][NextSpinner]_vars


\* ------------------------------------------------------------ reading the history
\* the events of the history whose operation is one of ops
Events(ops) == SelectSeq(log, LAMBDA e : e[1] \in ops)
Happened(op) == \E k \in 1..Len(log) : log[k][1] = op
IsPrefix(s, t) == Len(s) <= Len(t) /\ \A k \in 1..Len(s) : s[k] = t[k]

\* the step of the pipeline an event belongs to: 1 font-source check, 2 font
\* derivation and loading, 3 logo loading, 4 slide generation, 5 PDF assembly,
\* 6 cleanup, 7 success, 8 failure
StepOps == {"fontCheck", "fontExists", "createSlideFont", "readFonts", "loadLogo", "generate",
            "svgToPng", "write", "PDFDocument.create", "readFile", "Bun.write", "readdir",
            "readdir threw", "unlink threw", "return"}
StepOf(e) ==
    CASE e[1] = "fontCheck" -> 1
      [] e[1] \in {"fontExists", "createSlideFont", "readFonts"} -> 2
      [] e[1] = "loadLogo" -> 3
      [] e[1] \in {"generate", "svgToPng", "write"} -> 4
      [] e[1] \in {"PDFDocument.create", "readFile", "Bun.write"} -> 5
      [] e[1] \in {"readdir", "readdir threw", "unlink threw"} -> 6
      [] e[1] = "return" -> IF e[2] THEN 7 ELSE 8
Steps == Events(StepOps)
\* the arguments of the events of one operation, in order
PositionsOf(op, arg) == {k \in 1..Len(log) : log[k][1] = op /\ log[k][2] = arg}
Before(ks, ms) == \A k \in ks : \A m \in ms : k < m
CleanupFailed == Happened("readdir threw") \/ Happened("unlink threw")

ArgsOf(op) == LET es == Events({op}) IN [k \in 1..Len(es) |-> es[k][2]]

\* ------------------------------------------------------------ the claims
\* C1: a run passes through font-source check, font derivation and loading for
\* 400, 500, 700, logo loading, the seven slides, PDF assembly, cleanup and success
\* in this order only: each step event belongs to the step of the one before it or
\* to the next step, or is the failure return; nothing follows a return; a
\* successful run has gone through every step, all three weights and all seven slides.
C1_StepOrder ==
    LET st == Steps
        n == Len(st)
        at == [k \in 1..n |-> StepOf(st[k])]
    IN  /\ \A k \in 1..n :
            /\ k = 1 => at[k] \in {1, 8}
            /\ k > 1 => /\ at[k - 1] < 7
                        /\ at[k] \in {8, at[k - 1], at[k - 1] + 1}
        /\ IsPrefix(ArgsOf("fontExists"), FONT_WEIGHTS)
        /\ IsPrefix(ArgsOf("generate"), slides)
        /\ Happened("readFonts") => ArgsOf("fontExists") = FONT_WEIGHTS
        /\ Happened("PDFDocument.create") => ArgsOf("write") = [k \in 1..7 |-> PngName(slides[k])]
        /\ (pc = "done") = Happened("return")
        /\ result = "true" =>
            /\ {at[k] : k \in 1..n} = 1..7
            /\ ArgsOf("fontExists") = <<400, 500, 700>>
            /\ ArgsOf("loadLogo") = <<LOGO_PATH, LOCKEDUP_LOGO_PATH>>
            /\ Len(ArgsOf("generate")) = 7
        /\ result = "false" => StepOf(log[Len(log)]) = 8

\* C1 witness: a successful run that derived a font, and the run is over
C1_Witness == result = "true" /\ Happened("createSlideFont") /\ Happened("readdir")

\* C2: after a successful run the document at the output path has exactly seven
\* pages and page i holds the raster of slide i of the fixed order.
C2_SevenPagesInOrder ==
    result = "true" =>
        /\ outDoc.state = "complete"
        /\ Len(outDoc.pages) = 7
        /\ Len(slides) = 7
        /\ \A k \in 1..7 : /\ outDoc.pages[k].image.kind = "png"
                           /\ outDoc.pages[k].image.slide = slides[k]
                           /\ outDoc.pages[k].image.fonts = fonts

\* C2 witness: a successful run over a prior document
C2_Witness == result = "true" /\ fs0.outDoc = OldDoc /\ outDoc # OldDoc

\* C3: for every list of readable raster paths given to generatePDF, the written
\* document has one page per entry of the list (duplicates included), page i holds
\* the image of path i, and every page is 1920 x 1080 points with the image drawn
\* at (0,0) over the whole page, whatever the raster's pixel size; with such a list
\* nothing but the final write can fail.
AllRasters == \A k \in 1..Len(pngPaths) :
    pngPaths[k] \in DOMAIN fs0.slideFiles /\ fs0.slideFiles[pngPaths[k]].kind = "png"
C3_OnePagePerRaster ==
    AllRasters =>
        /\ pdfResult = "returned" =>
            /\ outDoc.state = "complete"
            /\ Len(outDoc.pages) = Len(pngPaths)
            /\ \A k \in 1..Len(pngPaths) :
                LET pg == outDoc.pages[k] IN
                /\ pg.image = fs0.slideFiles[pngPaths[k]]
                /\ pg.size = <<1920, 1080>>
                /\ pg.x = 0 /\ pg.y = 0
                /\ pg.width = 1920 /\ pg.height = 1080
        /\ pdfResult = "threw" => log[Len(log)][1] = "Bun.write"

\* C3 witness: a document written from three paths, one of them twice, of two pixel sizes
C3_Witness == pdfResult = "returned" /\ pngPaths = <<PngName("a"), PngName("b"), PngName("a")>>

\* C4: when the resolved font source (the --font value, else the default) is not
\* readable the run returns false, the output document, the slide directory and the
\* cache stay as they were, and no font derivation, logo load, slide generation,
\* raster write or PDF assembly takes place.
C4_UnreadableFontSource ==
    LET src == IF fontPath = UNDEFINED THEN DEFAULT_FONT ELSE fontPath IN
    src \notin readable =>
        /\ result # "true"
        /\ pc = "done" => result = "false"
        /\ outDoc = fs0.outDoc
        /\ slideFiles = fs0.slideFiles
        /\ cache = fs0.cache
        /\ \A k \in 1..Len(log) :
            log[k][1] \notin {"fontExists", "createSlideFont", "readFonts", "loadLogo", "generate",
                              "svgToPng", "write", "PDFDocument.create", "readFile", "Bun.write"}

\* C4 witness: --font names an unreadable file while the default source, the whole
\* cache and a prior document exist, and the run has ended at the font check
C4_Witness ==
    /\ pc = "done" /\ result = "false"
    /\ fontPath = CUSTOM_FONT /\ CUSTOM_FONT \notin readable /\ DEFAULT_FONT \in readable
    /\ Weights \subseteq DOMAIN cache
    /\ fs0.outDoc = OldDoc
    /\ Happened("fontCheck")

\* C5: whenever a run ends in failure, whatever the step that failed, the output
\* path holds what it held before the run (no partial document).
C5_NoDocumentOnFailure == result = "false" => outDoc = fs0.outDoc

\* C6: generatePDF is atomic for the whole document: the output path is written at
\* most once per call, only after every input path has been read and embedded, and
\* not at all when reading or embedding one of them fails.
C6_AtomicDocument ==
    LET writes == {k \in 1..Len(log) : log[k][1] = "Bun.write"}
        reads == {k \in 1..Len(log) : log[k][1] = "readFile"}
    IN  /\ Cardinality(writes) <= 1
        /\ \A k \in writes : /\ \A r \in reads : r < k
                             /\ Cardinality(reads) = Len(pngPaths)
                             /\ Len(pdfDoc) = Len(pngPaths)
        /\ writes = {} => outDoc = fs0.outDoc
        /\ (pdfResult = "threw" /\ log[Len(log)][1] = "readFile") =>
            /\ writes = {}
            /\ outDoc = fs0.outDoc
            /\ Len(pdfDoc) < Len(pngPaths)

\* C6 witness: the third path fails after two pages were embedded, over a prior document
C6_Witness ==
    /\ pdfResult = "threw"
    /\ Len(pngPaths) = 3 /\ Len(pdfDoc) = 2
    /\ log[Len(log)][1] = "readFile"
    /\ fs0.outDoc = OldDoc

\* C7: in loadFonts createSlideFont is invoked for a weight exactly when that
\* weight's cached file is absent when it is checked, right after the check; at
\* most once per weight; never with a fully populated cache.
C7_DeriveOnlyWhenAbsent ==
    LET n == Len(log) IN
    /\ \A k \in 1..n : log[k][1] = "fontExists" =>
        IF k = n
        THEN (pc = "createSlideFont") = (log[k][2] \notin DOMAIN cache)
        ELSE (log[k + 1][1] = "createSlideFont") = (log[k][2] \notin DOMAIN fs0.cache)
    /\ \A k \in 1..n : log[k][1] = "createSlideFont" =>
        k > 1 /\ log[k - 1][1] = "fontExists" /\ log[k - 1][2] = log[k][2]
    /\ \A w \in Weights :
        Cardinality({k \in 1..n : log[k][1] = "createSlideFont" /\ log[k][2] = w}) <= 1
    /\ Weights \subseteq DOMAIN fs0.cache => ~Happened("createSlideFont")

\* C7 witness: a finished run that found only the 500 derivative and derived the other two
C7_Witness ==
    /\ result = "true"
    /\ DOMAIN fs0.cache = {500}
    /\ ArgsOf("createSlideFont") = <<400, 700>>

C9_CleanupNeverFails ==
    (caller = "generatePresentation" /\ pdfResult = "returned") =>
        /\ pc \in {"readdir", "unlink", "finish", "done"}
        /\ result \in {"none", "true"}
        /\ pc = "done" => result = "true" /\ log[Len(log)][1] = "return" /\ log[Len(log)][2]
        /\ ~Happened("cli.error")
        /\ pc # "done" => ENABLED Next

\* C9 witness: a deletion failed, a raster is left behind and the run returned true
C9_Witness ==
    /\ result = "true"
    /\ Happened("unlink threw")
    /\ \E f \in DOMAIN slideFiles : EndsWithPng(f)

\* C10: slides are generated strictly one after the other in the fixed order: the
\* build, rasterization and write events alternate slide by slide, the build of a
\* slide starts only when the rasters of all slides before it are in the directory,
\* and pngPaths is the list of the rasters written so far, in slide order.
C10_SequentialSlides ==
    LET ev == Events({"generate", "svgToPng", "write"})
        cyc == <<"generate", "svgToPng", "write">>
        names == [k \in 1..Len(slides) |-> PngName(slides[k])]
        nWrites == Len(Events({"write"}))
        at == CASE pc = "generate" -> 0 [] pc = "svgToPng" -> 1 [] pc = "writePng" -> 2 [] OTHER -> 0
    IN  /\ Len(ev) <= 3 * Len(slides)
        /\ \A m \in 1..Len(ev) :
            /\ ev[m][1] = cyc[((m - 1) % 3) + 1]
            /\ ev[m][2] = IF ev[m][1] = "write" THEN names[((m - 1) \div 3) + 1]
                          ELSE slides[((m - 1) \div 3) + 1]
        /\ IsPrefix(pngPaths, names)
        /\ Len(pngPaths) <= nWrites /\ nWrites <= Len(pngPaths) + 1
        /\ nWrites = Len(pngPaths) + 1 => result = "false"
        /\ pc \in {"generate", "svgToPng", "writePng"} =>
            /\ Len(pngPaths) = si - 1
            /\ Len(ev) = 3 * (si - 1) + at
        /\ ~Happened("readdir") =>
            \A k \in 1..Len(pngPaths) :
                /\ names[k] \in DOMAIN slideFiles
                /\ slideFiles[names[k]] = Png(Svg(slides[k], fonts))

\* C10 witness: the build of the last slide is about to start with six rasters written
C10_Witness == pc = "generate" /\ si = 7 /\ Len(pngPaths) = 6 /\ fs0.slideFiles = Leftovers

C12_LateEveningOrder ==
    pc = "sorted" =>
        LET key(a) == IF Hour(a.time) <= 11 THEN Hour(a.time) + 24 ELSE Hour(a.time)
            times(s) == [k \in 1..Len(s) |-> s[k].time]
            night == <<Clock("2", "3", "0", "0"), Clock("0", "0", "0", "0"), Clock("0", "8", "0", "0")>>
        IN  /\ Len(sorted) = Len(activities)
            /\ \A k \in 1..(Len(sorted) - 1) :
                \/ key(sorted[k]) < key(sorted[k + 1])
                \/ /\ key(sorted[k]) = key(sorted[k + 1])
                   /\ localeCompare(sorted[k].time, sorted[k + 1].time) <= 0
            /\ (Len(activities) = 3 /\ {activities[k].time : k \in 1..3} = {night[k] : k \in 1..3})
                => times(sorted) = night

\* C12 witness: 08:00, 00:00, 23:00 was sorted into 23:00, 00:00, 08:00
C12_Witness ==
    /\ pc = "sorted"
    /\ Len(activities) = 3
    /\ activities[1].time = Clock("0", "8", "0", "0")
    /\ activities[2].time = Clock("0", "0", "0", "0")
    /\ activities[3].time = Clock("2", "3", "0", "0")
    /\ sorted[1].time = Clock("2", "3", "0", "0")
    /\ sorted[3].time = Clock("0", "8", "0", "0")

\* C13: the process exits with code 0 exactly when help was requested or
\* generatePresentation returned true, and with code 1 whenever it returned false or
\* raised; with --help or -h among the arguments the generator is never invoked,
\* whatever the other arguments.
C13_ExitCode ==
    LET help == \E k \in 1..Len(args) : args[k] \in {"--help", "-h"}
    IN  /\ help => (pc = "notCalled" /\ ~Happened("spinner.start") /\ mainpc \in {"main", "exited"})
        /\ mainpc = "exited" =>
            /\ exitCode \in {0, 1}
            /\ (exitCode = 0) = (help \/ result = "true")
            /\ (exitCode = 1) = (~help /\ (result = "false" \/ pc = "raised"))
        /\ mainpc # "exited" => exitCode = -1
        /\ (~help /\ pc \in {"done", "raised"}) => (mainpc = "exited" \/ ENABLED (MainReturn \/ MainCatch))

\* C13 witness: --font --help printed the help and exited with code 0
C13_Witness ==
    /\ args = <<"--font", "--help">>
    /\ mainpc = "exited"
    /\ exitCode = 0

\* C14: when the font instancing exits non-zero for a weight, createSlideFont throws
\* an error that carries the weight and the captured stderr, the run returns false and
\* no later step is executed: no remaining weight is derived, no logo is loaded, no
\* slide is generated and no document is written.
C14_FontDerivationFailure ==
    \A k \in 1..Len(log) : (log[k][1] = "exited" /\ log[k][2] # 0) =>
        LET weight == log[k - 1][2]
            derived == {log[m][2] : m \in {m \in 1..(k - 2) : log[m][1] = "createSlideFont"}}
        IN  /\ log[k - 1][1] = "createSlideFont"
            /\ Len(log) = k + 4
            /\ log[k + 1][1] = "throw"
            /\ log[k + 1][2].weight = weight
            /\ log[k + 1][2].stderr = "stderr of python3"
            /\ log[k + 2] = Ev("spinner.stop", FALSE)
            /\ log[k + 3][1] = "cli.error"
            /\ log[k + 4] = Ev("return", FALSE)
            /\ pc = "done" /\ result = "false"
            /\ ~ENABLED Next
            /\ weight \notin DOMAIN cache
            /\ DOMAIN cache = DOMAIN fs0.cache \cup derived
            /\ fonts = <<>> /\ logosLoaded = <<>> /\ pngPaths = <<>>
            /\ ~Happened("readFonts") /\ ~Happened("loadLogo") /\ ~Happened("generate")
            /\ ~Happened("PDFDocument.create") /\ ~Happened("Bun.write")
            /\ slideFiles = fs0.slideFiles /\ outDoc = fs0.outDoc

\* C14 witness: weight 400 was derived, the instancing of weight 500 failed, 700 is not derived
C14_Witness ==
    /\ result = "false"
    /\ DOMAIN fs0.cache = {}
    /\ DOMAIN cache = {400}
    /\ \E k \in 1..Len(log) : log[k][1] = "throw" /\ log[k][2].weight = 500

\* C15: the derived-font cache is keyed by weight alone: for a weight whose cached
\* file exists, loadFonts returns the content of that file whatever font source was
\* passed, so a run with one source after a run with another renders with the
\* derivatives of the earlier source.
C15_CacheKeyedByWeight ==
    /\ \A w \in DOMAIN fs0.cache : w \in DOMAIN cache /\ cache[w] = fs0.cache[w]
    /\ \A k \in 1..Len(log) : log[k][1] = "createSlideFont" => log[k][2] \notin DOMAIN fs0.cache
    /\ fonts # <<>> =>
        \A k \in 1..Len(FONT_WEIGHTS) :
            fonts[k] = IF FONT_WEIGHTS[k] \in DOMAIN fs0.cache THEN fs0.cache[FONT_WEIGHTS[k]]
                       ELSE Derived(fontSourcePath, FONT_WEIGHTS[k])
    /\ result = "true" => \A k \in 1..Len(outDoc.pages) : outDoc.pages[k].image.fonts = fonts

\* C15 witness: a run with the custom source over a cache holding the 400 and 500
\* derivatives of the default source rendered with those and with its own 700
C15_Witness ==
    /\ result = "true"
    /\ fontSourcePath = CUSTOM_FONT
    /\ DOMAIN fs0.cache = {400, 500}
    /\ outDoc.pages[1].image.fonts = <<Derived(DEFAULT_FONT, 400), Derived(DEFAULT_FONT, 500), Derived(CUSTOM_FONT, 700)>>

\* C16: a run with valid inputs that follows an interrupted run (any rasters left in
\* the temporary directory, any part of the cache filled, a derivative file cut
\* short included) succeeds and ends with the document, the cache and the temporary
\* directory of a run from a clean state. A run that fails with sound fonts failed
\* for a reason of its own and is not judged.
C16_RetryAfterInterruption ==
    LET cleanFonts == [k \in 1..Len(FONT_WEIGHTS) |-> Derived(DEFAULT_FONT, FONT_WEIGHTS[k])]
        cleanDoc == [state |-> "complete", pages |-> [k \in 1..Len(slides) |-> Page(Png(Svg(slides[k], cleanFonts)))]]
        cleanCache == [w \in Weights |-> Derived(DEFAULT_FONT, w)]
        brokenFont == \E k \in 1..Len(fonts) : fonts[k] = CutShort(FONT_WEIGHTS[k])
    IN  pc = "done" =>
            \/ result = "false" /\ ~brokenFont
            \/ /\ result = "true"
               /\ outDoc = cleanDoc
               /\ cache = cleanCache
               /\ ~CleanupFailed => \A f \in DOMAIN slideFiles : ~EndsWithPng(f)

C18_OverwriteNotMerge ==
    LET writes == Events({"Bun.write"})
    IN  /\ Len(writes) <= 1
        /\ Len(writes) = 0 => outDoc = fs0.outDoc
        /\ result = "true" =>
            /\ Len(writes) = 1
            /\ outDoc.state = "complete"
            /\ outDoc.pages = pdfDoc
            /\ Len(outDoc.pages) = Len(pngPaths)
            /\ \A k \in 1..Len(outDoc.pages) :
                /\ outDoc.pages[k].image = Png(Svg(slides[k], fonts))
                /\ \A m \in 1..Len(fs0.outDoc.pages) : outDoc.pages[k] # fs0.outDoc.pages[m]

\* C18 witness: a successful run wrote its seven pages once over an older document
C18_Witness ==
    /\ result = "true"
    /\ fs0.outDoc = OldDoc
    /\ Len(outDoc.pages) = 7
    /\ Len(Events({"Bun.write"})) = 1

\* what cleanupSlides could print a log entry with
ConsoleOps == {"cli.info", "cli.warning", "cli.error", "cli.success", "console.log", "console.error"}

\* C19 as stated: during cleanup a missing slides directory counts as already clean,
\* and any other deletion failure is swallowed and logged: a failed deletion of a
\* raster produces a log entry and does not fail the run.
C19_DeletionFailureLogged ==
    /\ pc # "done"
    /\ (SLIDES_DIR \notin dirs /\ pc = "finish") => (slideFiles = fs0.slideFiles /\ unlinked = {})
    /\ \A k \in 1..Len(log) : log[k][1] = "unlink threw" =>
        \E m \in (k + 1)..Len(log) : log[m][1] \in ConsoleOps

\* C19, amended: during cleanup a missing slides directory counts as already clean,
\* and any other failure of the listing or of a deletion is swallowed without a log
\* entry: cleanupSlides prints nothing, stops deleting at the first failure and
\* returns normally, so the failure does not fail the run.
C19_DeletionFailureSilent ==
    /\ pc # "done"
    /\ (SLIDES_DIR \notin dirs /\ pc = "finish") => (slideFiles = fs0.slideFiles /\ unlinked = {})
    /\ \A k \in 1..Len(log) : log[k][1] \notin ConsoleOps
    /\ \A k \in 1..Len(log) : log[k][1] \in {"readdir threw", "unlink threw"} =>
        /\ k = Len(log)
        /\ pc = "finish"
        /\ DOMAIN slideFiles = DOMAIN fs0.slideFiles \ unlinked
    /\ (pc = "finish" /\ ~CleanupFailed) => \A f \in DOMAIN slideFiles : ~EndsWithPng(f)

\* C19 witness: one raster was deleted, the next deletion failed, cleanupSlides has
\* returned and a raster is still there
C19_Witness ==
    /\ pc = "finish"
    /\ Happened("unlink threw")
    /\ Cardinality(unlinked) = 1
    /\ \E f \in DOMAIN slideFiles : EndsWithPng(f)

\* C21: in the layout tree of each of the seven slides the first children of the
\* root are the four orbs in configured order, then the grid, before any content;
\* the header follows the grid exactly on the three QR-link slides, the activities
\* slide and the escape-game slide, and is absent from the title slide, the
\* association slide and any QR slide built with showHeader false.
C21_BackgroundThenHeader ==
    \A n \in 1..Len(built) :
        LET b == built[n]
            ch == b.tree.children
            opted == IF b.slide = "" THEN b.showHeader
                     ELSE b.slide \in {"02-discord", "03-nuitdelinfo", "07-sujet", "04-programme", "05-escape-game"}
            first == IF opted THEN 7 ELSE 6
            orbStyle(k, key) == {p \in ch[k].style : p[1] = key}
            isHeader(e) == <<"top", "96px">> \in e.style /\ <<"left", "128px">> \in e.style
                           /\ \E m \in 1..Len(e.children) : e.children[m].content = "Asso Info Evry"
        IN  /\ Len(ch) >= first
            /\ \A k \in 1..4 :
                /\ <<"borderRadius", "50%">> \in ch[k].style
                /\ <<"position", "absolute">> \in ch[k].style
            /\ orbStyle(1, "width") = {<<"width", "2400px">>} /\ orbStyle(1, "background") = {<<"background", "#2563eb">>}
            /\ orbStyle(2, "width") = {<<"width", "2800px">>} /\ orbStyle(2, "background") = {<<"background", "#1e40af">>}
            /\ orbStyle(3, "width") = {<<"width", "1600px">>} /\ orbStyle(3, "background") = {<<"background", "#4f46e5">>}
            /\ orbStyle(4, "width") = {<<"width", "1400px">>} /\ orbStyle(4, "background") = {<<"background", "#0891b2">>}
            /\ <<"backgroundSize", "160px 160px">> \in ch[5].style /\ <<"position", "absolute">> \in ch[5].style
            /\ opted => isHeader(ch[6])
            /\ \A k \in 1..Len(ch) : (k # 6 \/ ~opted) => ~isHeader(ch[k])
            /\ \A k \in first..Len(ch) : <<"position", "absolute">> \notin ch[k].style

\* C21 witness: the association slide and a QR slide with showHeader false were
\* built, both without header
C21_Witness ==
    /\ Len(built) = 2
    /\ built[1].slide = "06-asso"
    /\ built[2].slide = "" /\ ~built[2].showHeader
    /\ Len(built[1].tree.children) = 6
    /\ Len(built[2].tree.children) = 6

\* C22: when a run fails in the build, the rasterization or the write of slide k, or
\* in the assembly of the document, cleanup is not invoked in that run, the rasters
\* the run has written (slides 1..k-1, all seven on an assembly failure) are still in
\* the temporary directory, and no raster of a later slide is written.
C22_FailureLeavesRasters ==
    LET st == Steps
        failed == IF Len(st) >= 2 THEN st[Len(st) - 1] ELSE <<"none", "">>
        slideOps == {"generate", "svgToPng", "write"}
        pdfOps == {"PDFDocument.create", "readFile", "Bun.write"}
        index(name) == CHOOSE k \in 1..Len(slides) : slides[k] = name
        k == IF failed[1] = "write" THEN index(failed[2][1])
             ELSE IF failed[1] \in slideOps THEN index(failed[2])
             ELSE Len(slides) + 1
    IN  (result = "false" /\ failed[1] \in slideOps \cup pdfOps) =>
            /\ ~Happened("readdir")
            /\ unlinked = {}
            /\ \A m \in 1..(k - 1) :
                /\ PngName(slides[m]) \in DOMAIN slideFiles
                /\ slideFiles[PngName(slides[m])] = Png(Svg(slides[m], fonts))
                /\ Cardinality(PositionsOf("write", PngName(slides[m]))) = 1
            /\ \A m \in (k + 1)..Len(slides) :
                /\ PositionsOf("write", PngName(slides[m])) = {}
                /\ PositionsOf("generate", slides[m]) = {}
            /\ \A f \in DOMAIN fs0.slideFiles : f \in DOMAIN slideFiles /\ slideFiles[f] = fs0.slideFiles[f]

\* C22 witness: the rasterization of the fourth slide failed and the first three rasters are there
C22_Witness ==
    /\ result = "false"
    /\ si = 4
    /\ log[Len(log) - 3] = Ev("svgToPng", slides[4])
    /\ \A m \in 1..3 : PngName(slides[m]) \in DOMAIN slideFiles
    /\ PngName(slides[4]) \notin DOMAIN slideFiles

\* C23: for the animated spinner, after any sequence of start(), update() and stop()
\* calls that ends with stop() no interval timer of the spinner is active and no
\* frame is written after the final status line; at every moment at most one timer
\* of the spinner is active, and the frame index stays within 0..9.
C23_SpinnerTimers ==
    /\ lastCall = "stop" => (timers = {} /\ written = "status")
    /\ Cardinality(timers) <= 1
    /\ current \in 0..9

\* C24: the readability check of the font source does not depend on the cache: a
\* run whose font source cannot be read returns false and generates no slide, also
\* when the derivatives of all three weights are cached; the output and slides
\* directories are created before the check, so they exist after a run failed by it.
C24_FontCheckBeforeCache ==
    /\ (pc = "done" /\ ResolveFont(fontPath) \notin readable) =>
        /\ result = "false"
        /\ fonts = <<>> /\ pngPaths = <<>>
        /\ ~Happened("fontExists") /\ ~Happened("readFonts") /\ ~Happened("generate")
        /\ cache = fs0.cache /\ slideFiles = fs0.slideFiles /\ outDoc = fs0.outDoc
    /\ \A k \in 1..Len(log) : log[k][1] = "fontCheck" =>
        /\ k >= 2 /\ log[k - 1] = Ev("mkdir", SLIDES_DIR)
        /\ {OUTPUT_DIR, SLIDES_DIR} \subseteq dirs
        /\ log[k][2] \notin readable => (pc = "done" /\ result = "false" /\ \A m \in (k + 1)..Len(log) : log[m][1] \notin StepOps \ {"return"})

\* C24 witness: all three derivatives were cached, the source was unreadable, the
\* check failed the run and the slides directory exists
C24_Witness ==
    /\ result = "false"
    /\ DOMAIN fs0.cache = Weights
    /\ Happened("fontCheck")
    /\ fontSourcePath \notin readable
    /\ SLIDES_DIR \in dirs

C26_StablePermutation ==
    [][(pc = "sort" /\ pc' = "sorted") =>
        LET withTime(s, t) == SelectSeq(s, LAMBDA a : a.time = t)
            count(s, a) == Cardinality({k \in 1..Len(s) : s[k] = a})
            inOrder(s) == \A k \in 1..(Len(s) - 1) : Compare(s[k], s[k + 1]) <= 0
        IN  /\ activities' = activities
            /\ Len(sorted') = Len(activities)
            /\ \A a \in Activities : count(sorted', a) = count(activities, a)
            /\ \A t \in TimeStrings : withTime(sorted', t) = withTime(activities, t)
            /\ inOrder(activities) => sorted' = activities
            /\ sortActivitiesByTime(sorted') = sorted']_vars

\* C26 witness: Film and Kahoot at 08:00 were given before a 23:00 activity and come
\* out behind it, Film still before Kahoot, with the argument as it was
C26_Witness ==
    /\ pc = "sorted"
    /\ activities = <<Activity("Film", Clock("0", "8", "0", "0")), Activity("Kahoot", Clock("0", "8", "0", "0")),
                      Activity("Kahoot", Clock("2", "3", "0", "0"))>>
    /\ sorted = <<Activity("Kahoot", Clock("2", "3", "0", "0")), Activity("Film", Clock("0", "8", "0", "0")),
                  Activity("Kahoot", Clock("0", "8", "0", "0"))>>

====
